---- MODULE Spec2Model ----
(***************************************************************************)
(* Model of allens.py: the thirteen Allen interval predicates, the         *)
(* validity test they share, the fixtures, and the main block that calls   *)
(* the predicates one after the other.                                     *)
(*                                                                         *)
(* A point is an integer.  The predicates only ever compare points with    *)
(* <, <=, >, >= and ==, so a date is represented by an integer that orders *)
(* the same way (see date).                                                *)
(*                                                                         *)
(* A Python function returns 1, 0 or None (falling off the end of the      *)
(* function body); None is kept distinct from 0.                           *)
(***************************************************************************)
EXTENDS Integers, FiniteSets, Sequences, TLC

VARIABLES args, pc, res

vars == <<args, pc, res>>

\* Largest point of the bounded input domain.
MaxPoint == 3

Points == 0..MaxPoint

\* Python's None: the value of a call that reaches the end of the body
\* without executing a return statement.
None == -1

\* Truth value of a Python object in an `if`: None and 0 are false.
Truthy(v) == v # None /\ v # 0

\* datetime.date(y, m, d): dates compare by year, then month, then day.
date(y, m, d) == y * 10000 + m * 100 + d

----------------------------------------------------------------------------
(* Fixtures, lines 84-96 *)

PRECEDES      == <<date(2014,11,1), date(2015,4,1),  date(2015,5,12), date(2015,9,5)>>
PRECEDED_BY   == <<date(2015,5,12), date(2015,9,5),  date(2014,11,1), date(2015,4,1)>>
MEETS         == <<date(2014,11,1), date(2015,4,1),  date(2015,4,1),  date(2015,9,5)>>
MET_BY        == <<date(2015,5,12), date(2015,9,5),  date(2014,11,1), date(2015,5,12)>>
OVERLAPS      == <<date(2013,6,1),  date(2015,1,1),  date(2014,12,1), date(2015,9,5)>>
OVERLAPPED_BY == <<date(2014,5,12), date(2015,3,6),  date(2013,11,1), date(2014,12,12)>>
FINISHED_BY   == <<date(2013,8,1),  date(2015,8,7),  date(2014,12,1), date(2015,8,7)>>
FINISHES      == <<date(2014,5,12), date(2015,8,7),  date(2013,11,1), date(2015,8,7)>>
CONTAINS      == <<date(2013,8,1),  date(2015,8,7),  date(2014,12,1), date(2015,2,7)>>
DURING        == <<date(2014,5,12), date(2015,8,7),  date(2013,11,1), date(2015,11,7)>>
STARTS        == <<date(2011,8,1),  date(2012,8,7),  date(2011,8,1),  date(2014,2,7)>>
STARTED_BY    == <<date(2013,7,5),  date(2015,8,7),  date(2013,7,5),  date(2014,10,7)>>
EQUALS        == <<date(1969,6,4),  date(1972,4,17), date(1969,6,4),  date(1972,4,17)>>

Fixtures ==
    { PRECEDES, PRECEDED_BY, MEETS, MET_BY, OVERLAPS, OVERLAPPED_BY,
      FINISHED_BY, FINISHES, CONTAINS, DURING, STARTS, STARTED_BY, EQUALS }

----------------------------------------------------------------------------
(* The validity test and the thirteen predicates, lines 104-230 *)

valid_dates_flipped(start, stop) ==
    IF start < stop THEN 0 ELSE 1

valid_dates(start, stop) ==
    IF start > stop THEN 0 ELSE 1

precedes_nonstrict(begin_start, begin_end, end_start, end_end) ==
    IF Truthy(valid_dates(begin_start, begin_end)) /\ Truthy(valid_dates(end_start, end_end))
    THEN IF begin_start < end_start /\ begin_end <= end_start THEN 1 ELSE 0
    ELSE None

precedes(begin_start, begin_end, end_start, end_end) ==
    IF Truthy(valid_dates(begin_start, begin_end)) /\ Truthy(valid_dates(end_start, end_end))
    THEN IF begin_start < end_start /\ begin_end < end_start THEN 1 ELSE 0
    ELSE None

preceded_by_unswapped(begin_start, begin_end, end_start, end_end) ==
    IF Truthy(precedes(begin_start, begin_end, end_start, end_end)) THEN 1 ELSE 0

preceded_by(begin_start, begin_end, end_start, end_end) ==
    IF Truthy(precedes(end_start, end_end, begin_start, begin_end)) THEN 1 ELSE 0

meets_strict(begin_start, begin_end, end_start, end_end) ==
    IF Truthy(valid_dates(begin_start, begin_end)) /\ Truthy(valid_dates(end_start, end_end))
    THEN IF begin_start < end_start /\ begin_end < end_start THEN 1 ELSE 0
    ELSE None

meets(begin_start, begin_end, end_start, end_end) ==
    IF Truthy(valid_dates(begin_start, begin_end)) /\ Truthy(valid_dates(end_start, end_end))
    THEN IF begin_start < end_start /\ begin_end <= end_start THEN 1 ELSE 0
    ELSE None

met_by(begin_start, begin_end, end_start, end_end) ==
    IF Truthy(meets(end_start, end_end, begin_start, begin_end)) THEN 1 ELSE 0

overlaps(begin_start, begin_end, end_start, end_end) ==
    IF Truthy(valid_dates(begin_start, begin_end)) /\ Truthy(valid_dates(end_start, end_end))
    THEN IF begin_start < end_start /\ begin_end >= end_start THEN 1 ELSE 0
    ELSE None

overlapped_by(begin_start, begin_end, end_start, end_end) ==
    IF Truthy(overlaps(end_start, end_end, begin_start, begin_end)) THEN 1 ELSE 0

finished_by(begin_start, begin_end, end_start, end_end) ==
    IF Truthy(valid_dates(begin_start, begin_end)) /\ Truthy(valid_dates(end_start, end_end))
    THEN IF begin_start < end_start /\ begin_end = end_end THEN 1 ELSE 0
    ELSE None

finishes(begin_start, begin_end, end_start, end_end) ==
    IF Truthy(finished_by(end_start, end_end, begin_start, begin_end)) THEN 1 ELSE 0

contains(begin_start, begin_end, end_start, end_end) ==
    IF Truthy(valid_dates(begin_start, begin_end)) /\ Truthy(valid_dates(end_start, end_end))
    THEN IF begin_start < end_start /\ begin_end > end_start THEN 1 ELSE 0
    ELSE None

during(begin_start, begin_end, end_start, end_end) ==
    IF Truthy(contains(end_start, end_end, begin_start, begin_end)) THEN 1 ELSE 0

starts_wrong_end(begin_start, begin_end, end_start, end_end) ==
    IF Truthy(valid_dates(begin_start, begin_end)) /\ Truthy(valid_dates(end_start, end_end))
    THEN IF begin_start = end_start /\ begin_end < end_start THEN 1 ELSE 0
    ELSE None

starts_nonstrict(begin_start, begin_end, end_start, end_end) ==
    IF Truthy(valid_dates(begin_start, begin_end)) /\ Truthy(valid_dates(end_start, end_end))
    THEN IF begin_start = end_start /\ begin_end <= end_end THEN 1 ELSE 0
    ELSE None

starts(begin_start, begin_end, end_start, end_end) ==
    IF Truthy(valid_dates(begin_start, begin_end)) /\ Truthy(valid_dates(end_start, end_end))
    THEN IF begin_start = end_start /\ begin_end < end_end THEN 1 ELSE 0
    ELSE None

started_by(begin_start, begin_end, end_start, end_end) ==
    IF Truthy(starts(end_start, end_end, begin_start, begin_end)) THEN 1 ELSE 0

equals_wrong_end(begin_start, begin_end, end_start, end_end) ==
    IF Truthy(valid_dates(begin_start, begin_end)) /\ Truthy(valid_dates(end_start, end_end))
    THEN IF begin_start = end_start /\ begin_end = end_start THEN 1 ELSE 0
    ELSE None

equals(begin_start, begin_end, end_start, end_end) ==
    IF Truthy(valid_dates(begin_start, begin_end)) /\ Truthy(valid_dates(end_start, end_end))
    THEN IF begin_start = end_start /\ begin_end = end_end THEN 1 ELSE 0
    ELSE None

----------------------------------------------------------------------------
(* The three states of interest, header comment lines 69-77 *)

Compatible == {"precedes", "preceded_by", "meets", "met_by"}

Conflicting == {"overlaps", "overlapped_by", "finished_by", "finishes",
                "contains", "during", "starts", "started_by"}

Category(r) ==
    IF r = "equals" THEN "EQUAL"
    ELSE IF r \in Compatible THEN "COMPATIBLE"
    ELSE "CONFLICTING"

----------------------------------------------------------------------------
(* The main block, lines 240-265: the predicates are called in this order; *)
(* pc names the predicate about to be called, res holds what the calls     *)
(* made so far returned.  The arguments are any four points of the bounded *)
(* domain (valid or not) or one of the fixtures.                           *)

Order == << "precedes", "preceded_by", "meets", "met_by", "overlaps",
            "overlapped_by", "finished_by", "finishes", "contains", "during",
            "starts", "started_by", "equals", "done" >>

Relations == { Order[i] : i \in 1..13 }

Inputs == (Points \X Points \X Points \X Points) \cup Fixtures

Init ==
    /\ args \in Inputs
    /\ pc = "precedes"
    /\ res = [r \in {} |-> None]

Return(r, v) ==
    /\ pc = r
    /\ res' = [x \in DOMAIN res \cup {r} |-> IF x = r THEN v ELSE res[x]]
    /\ pc' = Order[(CHOOSE i \in 1..13 : Order[i] = r) + 1]
    /\ UNCHANGED args

main_precedes      == Return("precedes",      precedes(args[1], args[2], args[3], args[4]))
main_preceded_by   == Return("preceded_by",   preceded_by(args[1], args[2], args[3], args[4]))
main_meets         == Return("meets",         meets(args[1], args[2], args[3], args[4]))
main_met_by        == Return("met_by",        met_by(args[1], args[2], args[3], args[4]))
main_overlaps      == Return("overlaps",      overlaps(args[1], args[2], args[3], args[4]))
main_overlapped_by == Return("overlapped_by", overlapped_by(args[1], args[2], args[3], args[4]))
main_finished_by   == Return("finished_by",   finished_by(args[1], args[2], args[3], args[4]))
main_finishes      == Return("finishes",      finishes(args[1], args[2], args[3], args[4]))
main_contains      == Return("contains",      contains(args[1], args[2], args[3], args[4]))
main_during        == Return("during",        during(args[1], args[2], args[3], args[4]))
main_starts        == Return("starts",        starts(args[1], args[2], args[3], args[4]))
main_started_by    == Return("started_by",    started_by(args[1], args[2], args[3], args[4]))
main_equals        == Return("equals",        equals(args[1], args[2], args[3], args[4]))

Next ==
    \/ main_precedes
    \/ main_preceded_by
    \/ main_meets
    \/ main_met_by
    \/ main_overlaps
    \/ main_overlapped_by
    \/ main_finished_by
    \/ main_finishes
    \/ main_contains
    \/ main_during
    \/ main_starts
    \/ main_started_by
    \/ main_equals

Spec == Init /\ [][Next]_vars

----------------------------------------------------------------------------
(* Vocabulary of the properties *)

Done == pc = "done"

\* Both intervals of the pair are well formed.
ValidPair == args[1] <= args[2] /\ args[3] <= args[4]

\* The predicates that returned a true value.
Holding == { r \in DOMAIN res : Truthy(res[r]) }

TypeOK ==
    /\ args \in Inputs
    /\ pc \in { Order[i] : i \in 1..14 }
    /\ DOMAIN res \subseteq Relations
    /\ \A r \in DOMAIN res : res[r] \in {None, 0, 1}

----------------------------------------------------------------------------
(* Properties *)

\* The predicate r returned a true value.
T(r) == Truthy(res[r])

as == args[1]
ae == args[2]
bs == args[3]
be == args[4]

\* C1 -- Mutual exclusivity: once all thirteen predicates have been called
\* on a pair of valid intervals, at most one of them returned true.
C1_MutualExclusivity ==
    (Done /\ ValidPair) => Cardinality(Holding) <= 1

\* C2 -- Exhaustiveness: once all thirteen predicates have been called on a
\* pair of valid intervals, at least one of them returned true.
C2_Exhaustive ==
    (Done /\ ValidPair) => Cardinality(Holding) >= 1

\* A pair of valid intervals with a common start on which exactly one
\* predicate, started_by, returned true.
C2_Witness ==
    Done /\ ValidPair /\ as = bs /\ Holding = {"started_by"}

\* C3 -- Deterministic category: on a pair of valid intervals, all the
\* predicates that returned true map to one and the same conflict category.
C3_OneCategory ==
    (Done /\ ValidPair) => Cardinality({ Category(r) : r \in Holding }) <= 1

\* C4 -- Invalid-input rejection: when either interval has start > end, each
\* of the thirteen calls returns (none raises) and returns a false value, so
\* no relation and no category is identified for the pair.
C4_InvalidRejected ==
    /\ ~ValidPair => \A r \in DOMAIN res : res[r] \in {None, 0}
    /\ (Done /\ ~ValidPair) => (DOMAIN res = Relations /\ Holding = {})

\* An invalid first interval whose endpoints, had they been swapped, would
\* precede the valid second interval; precedes returned None all the same.
C4_Witness ==
    /\ Done
    /\ ae < as /\ as < bs /\ bs <= be
    /\ res["precedes"] = None
    /\ res["preceded_by"] = 0

\* C5 -- Complement symmetry: on valid intervals A and B, each predicate's
\* result on (A,B) has the truth value of its complement on (B,A), and
\* equals(A,B) has the truth value of equals(B,A).
C5_ComplementSymmetry ==
    (Done /\ ValidPair) =>
        /\ T("precedes")      = Truthy(preceded_by(bs, be, as, ae))
        /\ T("preceded_by")   = Truthy(precedes(bs, be, as, ae))
        /\ T("meets")         = Truthy(met_by(bs, be, as, ae))
        /\ T("met_by")        = Truthy(meets(bs, be, as, ae))
        /\ T("overlaps")      = Truthy(overlapped_by(bs, be, as, ae))
        /\ T("overlapped_by") = Truthy(overlaps(bs, be, as, ae))
        /\ T("finished_by")   = Truthy(finishes(bs, be, as, ae))
        /\ T("finishes")      = Truthy(finished_by(bs, be, as, ae))
        /\ T("contains")      = Truthy(during(bs, be, as, ae))
        /\ T("during")        = Truthy(contains(bs, be, as, ae))
        /\ T("starts")        = Truthy(started_by(bs, be, as, ae))
        /\ T("started_by")    = Truthy(starts(bs, be, as, ae))
        /\ T("equals")        = Truthy(equals(bs, be, as, ae))

\* A precedes B, and preceded_by holds of (B,A) but not of (A,B).
C5_Witness ==
    /\ Done /\ ValidPair
    /\ T("precedes") /\ ~T("preceded_by")
    /\ preceded_by(bs, be, as, ae) = 1

\* C6 -- Concrete scenarios: on each of the five listed fixtures exactly the
\* named predicate returned true, and the category is the stated one.
C6_Scenarios ==
    Done =>
        /\ args = PRECEDES    => (Holding = {"precedes"}    /\ Category("precedes") = "COMPATIBLE")
        /\ args = MEETS       => (Holding = {"meets"}       /\ Category("meets") = "COMPATIBLE")
        /\ args = OVERLAPS    => (Holding = {"overlaps"}    /\ Category("overlaps") = "CONFLICTING")
        /\ args = EQUALS      => (Holding = {"equals"}      /\ Category("equals") = "EQUAL")
        /\ args = FINISHED_BY => (Holding = {"finished_by"} /\ Category("finished_by") = "CONFLICTING")

\* C7 -- Completeness against the standard Allen relations: on intervals of
\* positive width that stand in the standard relation R, the predicate R
\* returned true; so it did on each of the thirteen fixtures.
C7_StandardRelationsHold ==
    (Done /\ as < ae /\ bs < be) =>
        /\ ae < bs                       => T("precedes")
        /\ be < as                       => T("preceded_by")
        /\ ae = bs                       => T("meets")
        /\ be = as                       => T("met_by")
        /\ (as < bs /\ bs < ae /\ ae < be) => T("overlaps")
        /\ (bs < as /\ as < be /\ be < ae) => T("overlapped_by")
        /\ (as < bs /\ ae = be)          => T("finished_by")
        /\ (bs < as /\ be = ae)          => T("finishes")
        /\ (as < bs /\ be < ae)          => T("contains")
        /\ (bs < as /\ ae < be)          => T("during")
        /\ (as = bs /\ ae < be)          => T("starts")
        /\ (bs = as /\ be < ae)          => T("started_by")
        /\ (as = bs /\ ae = be)          => T("equals")
        /\ args = PRECEDES      => T("precedes")
        /\ args = PRECEDED_BY   => T("preceded_by")
        /\ args = MEETS         => T("meets")
        /\ args = MET_BY        => T("met_by")
        /\ args = OVERLAPS      => T("overlaps")
        /\ args = OVERLAPPED_BY => T("overlapped_by")
        /\ args = FINISHED_BY   => T("finished_by")
        /\ args = FINISHES      => T("finishes")
        /\ args = CONTAINS      => T("contains")
        /\ args = DURING        => T("during")
        /\ args = STARTS        => T("starts")
        /\ args = STARTED_BY    => T("started_by")
        /\ args = EQUALS        => T("equals")

\* A meets B with both intervals of positive width, and meets returned true.
C7_Witness ==
    Done /\ as < ae /\ bs < be /\ ae = bs /\ T("meets")

\* C8 -- Contrary test: on valid intervals a predicate and its complement
\* never both returned true; precedes is false on PRECEDED_BY, preceded_by
\* on PRECEDES, meets on MET_BY and met_by on MEETS.
C8_ContraryTest ==
    /\ (Done /\ ValidPair) =>
        /\ ~(T("precedes")    /\ T("preceded_by"))
        /\ ~(T("meets")       /\ T("met_by"))
        /\ ~(T("overlaps")    /\ T("overlapped_by"))
        /\ ~(T("finished_by") /\ T("finishes"))
        /\ ~(T("contains")    /\ T("during"))
        /\ ~(T("starts")      /\ T("started_by"))
    /\ (Done /\ args = PRECEDED_BY) => ~T("precedes")
    /\ (Done /\ args = PRECEDES)    => ~T("preceded_by")
    /\ (Done /\ args = MET_BY)      => ~T("meets")
    /\ (Done /\ args = MEETS)       => ~T("met_by")

\* Two intervals with a common start and different ends: started_by
\* returned true and starts did not.
C8_Witness ==
    Done /\ ValidPair /\ as = bs /\ be < ae /\ T("started_by") /\ ~T("starts")

\* C9 -- Reflexivity of equals: on (s,e,s,e) with s <= e, equals returns 1.
C9_EqualsReflexive ==
    (Done /\ ValidPair /\ as = bs /\ ae = be) => res["equals"] = 1

\* A zero-width interval compared with itself.
C9_Witness ==
    Done /\ as = ae /\ as = bs /\ ae = be /\ res["equals"] = 1

\* C10 -- Soundness of the non-conflict verdict: on valid intervals, if one
\* of precedes, preceded_by, meets, met_by returned true the intervals share
\* at most a boundary point; if precedes or preceded_by returned true, none
\* of the eight conflicting predicates nor equals returned true.
C10_NonConflictSound ==
    (Done /\ ValidPair) =>
        /\ (Holding \cap Compatible # {}) => (ae <= bs \/ be <= as)
        /\ (T("precedes") \/ T("preceded_by")) =>
               Holding \cap (Conflicting \cup {"equals"}) = {}

\* A strictly precedes B: precedes returned true and no conflicting
\* predicate did.
C10_Witness ==
    Done /\ ValidPair /\ ae < bs /\ T("precedes") /\ Holding \cap Conflicting = {}

====
